---------------------------- MODULE Spec2Model ----------------------------
(***************************************************************************)
(* Heat-transfer simulator: CorpoTermico (corpo_termico.py), the rate laws *)
(* (transferencia_calor.py), the engine SimuladorTermico (simulador.py)    *)
(* and the multicorpo command (cli.py).                                    *)
(*                                                                         *)
(* Numbers.  The program computes with Python floats and numpy float64.    *)
(* A number is modelled as an exact fraction n/d in lowest terms, d > 0,   *)
(* extended with the three non-finite float values, which numpy produces   *)
(* on a division by zero: d = 0 with n = 1 (inf), n = -1 (-inf), n = 0     *)
(* (nan).  Binary rounding is not modelled: finite results are exact.      *)
(***************************************************************************)
EXTENDS Integers, Sequences, FiniteSets, TLC

VARIABLES
    corpos,                 \* self.corpos: sequence of CorpoTermico objects
    temperatura_ambiente,   \* self.temperatura_ambiente
    coef_conveccao,         \* self.coef_conveccao
    delta_t,                \* self.delta_t
    tempo_atual,            \* self.tempo_atual
    matriz_condutancia,     \* self.matriz_condutancia (optional)
    condutancia_ambiente,   \* self.condutancia_ambiente (optional)
    pc,                     \* where the caller is: "idle", "multi", "legado", "fim"
    run,                    \* locals of the running simular* call
    erro,                   \* exception raised by the last call ("nenhum" if none)
    cmd,                    \* the multicorpo command's option counts, once run
    passos,                 \* steps attempted so far (bounds the exploration)
    chamada                 \* the last direct call of a function of transferencia_calor

vars == <<corpos, temperatura_ambiente, coef_conveccao, delta_t, tempo_atual,
          matriz_condutancia, condutancia_ambiente, pc, run, erro, cmd, passos,
          chamada>>

engine == <<corpos, temperatura_ambiente, coef_conveccao, delta_t, tempo_atual,
            matriz_condutancia, condutancia_ambiente>>

---------------------------------------------------------------------------
(* Bounds of the exploration *)

\* most bodies an engine is given
MaxCorpos == 2
\* most steps an engine is stepped through
MaxPassos == 2

---------------------------------------------------------------------------
(* Float arithmetic *)

Abs(x) == IF x < 0 THEN -x ELSE x

Sign(x) == IF x < 0 THEN -1 ELSE IF x > 0 THEN 1 ELSE 0

RECURSIVE GCD(_, _)
GCD(a, b) == IF b = 0 THEN a ELSE GCD(b, a % b)

\* the float n/d; d = 0 gives inf, -inf or nan by the sign of n
Norm(n, d) ==
    IF d = 0 THEN [n |-> Sign(n), d |-> 0]
    ELSE LET s == IF d < 0 THEN -1 ELSE 1
             g == GCD(Abs(n), Abs(d))
         IN  [n |-> (s * n) \div g, d |-> (s * d) \div g]

Num(k) == [n |-> k, d |-> 1]
Frac(n, d) == Norm(n, d)
Zero == Num(0)
NaN == [n |-> 0, d |-> 0]

IsFinite(a) == a.d # 0
IsZero(a) == a.d # 0 /\ a.n = 0

Neg(a) == [n |-> -a.n, d |-> a.d]

\* a + b; inf + (-inf) and anything with nan are nan
Add(a, b) ==
    IF a.d = 0 /\ b.d = 0 THEN (IF a.n = b.n THEN a ELSE NaN)
    ELSE IF a.d = 0 THEN a
    ELSE IF b.d = 0 THEN b
    ELSE LET g == GCD(a.d, b.d)
         IN  Norm(a.n * (b.d \div g) + b.n * (a.d \div g), (a.d \div g) * b.d)

Sub(a, b) == Add(a, Neg(b))

\* a * b; inf * 0 is nan
Mul(a, b) ==
    IF a.d = 0 \/ b.d = 0 THEN Norm(a.n * b.n, 0)
    ELSE LET g1 == GCD(Abs(a.n), b.d)
             g2 == GCD(Abs(b.n), a.d)
         IN  Norm((a.n \div g1) * (b.n \div g2), (a.d \div g2) * (b.d \div g1))

\* a / b as numpy divides: x/0 is inf, -inf or nan, never an exception
NpDiv(a, b) ==
    IF b.d = 0 THEN (IF b.n = 0 \/ a.d = 0 THEN NaN ELSE Zero)
    ELSE IF b.n = 0 THEN Norm(a.n, 0)
    ELSE Mul(a, Norm(b.d, b.n))

\* a > 0 (false for nan)
Gt0(a) == a.n > 0

\* a < b on finite numbers
Less(a, b) == a.n * b.d < b.n * a.d

\* int(a) of a finite float: truncation toward zero
Trunc(a) == IF a.n >= 0 THEN a.n \div a.d ELSE -((-a.n) \div a.d)

---------------------------------------------------------------------------
(* transferencia_calor.py *)

\* the rate with the ambient temperature left out of the difference
taxa_conveccao_absoluta(h, area, T_corpo, T_ambiente) ==
    Mul(Mul(h, area), T_corpo)

taxa_conveccao(h, area, T_corpo, T_ambiente) ==
    Mul(Mul(h, area), Sub(T_corpo, T_ambiente))

\* espessura is never zero where the engine calls it (simulador.py:112)
taxa_conducao(k, area, espessura, T1, T2) ==
    NpDiv(Mul(Mul(k, area), Sub(T1, T2)), espessura)

calcular_delta_Q(taxa_transferencia, dt) == Mul(taxa_transferencia, dt)


---------------------------------------------------------------------------
(* Optional attributes (None or a value) *)

None == [set |-> FALSE, val |-> <<>>]
Some(v) == [set |-> TRUE, val |-> v]

SeqNum(s) == [i \in 1..Len(s) |-> Num(s[i])]
MatNum(m) == [i \in 1..Len(m) |-> SeqNum(m[i])]

\* matriz.shape of a numpy matrix given as its rows
Linhas(m) == Len(m)
Colunas(m) == Len(m[1])

---------------------------------------------------------------------------
(* Inputs the operations are called with *)

\* (massa, calor_especifico, area_superficie, temperatura_inicial)
ParametrosCorpo ==
    { <<Num(1), Num(1000), Frac(1, 10), Num(100)>>,
      <<Num(2), Num(10), Frac(1, 10), Num(25)>>,
      <<Num(0), Num(10), Frac(1, 10), Num(25)>> }

\* shapes 1x1, 2x2, 2x3 and 3x3
Matrizes ==
    { MatNum(<< <<0>> >>),
      MatNum(<< <<0, 1>>, <<1, 0>> >>),
      MatNum(<< <<0, 1, 0>>, <<1, 0, 0>> >>),
      MatNum(<< <<0, 1, 0>>, <<1, 0, 2>>, <<0, 2, 0>> >>) }

Condutancias ==
    { SeqNum(<<20>>), SeqNum(<<20, 10>>), SeqNum(<<20, 10, 30>>) }

TemperaturasAmbiente == { Num(20) }
Coeficientes == { None, Some(Num(20)) }
DeltaTs == { Num(-1), Num(0), Num(1), Num(10) }
TemposTotais == { Num(-2), Num(0), Num(1), Num(2), Num(25) }
Modos == { "ambiente", "conducao" }

---------------------------------------------------------------------------
(* corpo_termico.py *)

CorpoTermico(massa, calor_especifico, area_superficie, temperatura_inicial) ==
    [ massa |-> massa,
      calor_especifico |-> calor_especifico,
      area_superficie |-> area_superficie,
      temperatura |-> temperatura_inicial,
      historico_temperatura |-> <<temperatura_inicial>>,
      historico_tempo |-> <<Zero>>,
      np |-> FALSE ]      \* whether temperatura is a numpy float64

capacidade_termica(corpo) == Mul(corpo.massa, corpo.calor_especifico)

\* delta_Q / capacidade raises ZeroDivisionError when both are Python floats
\* and the capacity is zero; with a numpy operand it yields inf or nan
atualizar_temperatura_raises(corpo, q_np) ==
    ~q_np /\ IsZero(capacidade_termica(corpo))

atualizar_temperatura(corpo, delta_Q, q_np) ==
    [corpo EXCEPT !.temperatura = Add(@, NpDiv(delta_Q, capacidade_termica(corpo))),
                  !.np = @ \/ q_np]

registrar_estado(corpo, tempo) ==
    [corpo EXCEPT !.historico_temperatura = Append(@, corpo.temperatura),
                  !.historico_tempo = Append(@, tempo)]

---------------------------------------------------------------------------
(* simulador.py: SimuladorTermico *)

\* locals of a simular / simular_multiplos_corpos call; k counts the
\* iterations of its loop that have completed
NoRun ==
    [ tempo_total |-> Zero, num_passos |-> 0, k |-> 0, modo |-> "",
      temperaturas |-> <<>>, capacidades |-> <<>>, areas |-> <<>>,
      coefs_conv |-> <<>>, inicio |-> Zero, cli |-> FALSE ]

\* no multicorpo command was run: the engine is driven through its methods
NoCmd == [set |-> FALSE, n_t_init |-> 0, n_m |-> 0, n_c |-> 0]

\* no function of transferencia_calor was called directly
NoChamada == [op |-> "", espessura |-> Zero, erro |-> "nenhum", retorno |-> None]

\* __init__(delta_t): the engine as constructed
Init ==
    /\ corpos = <<>>
    /\ temperatura_ambiente = Num(25)
    /\ coef_conveccao = Num(10)
    /\ delta_t \in DeltaTs
    /\ tempo_atual = Zero
    /\ matriz_condutancia = None
    /\ condutancia_ambiente = None
    /\ pc = "idle"
    /\ run = NoRun
    /\ erro = "nenhum"
    /\ cmd = NoCmd
    /\ passos = 0
    /\ chamada = NoChamada

\* CorpoTermico(...) followed by adicionar_corpo(corpo)
AdicionarCorpo(p) ==
    /\ corpos' = Append(corpos, CorpoTermico(p[1], p[2], p[3], p[4]))
    /\ erro' = "nenhum"
    /\ UNCHANGED <<temperatura_ambiente, coef_conveccao, delta_t, tempo_atual,
                   matriz_condutancia, condutancia_ambiente, pc, run, cmd, passos>>

ConfigurarAmbiente(temperatura, coef) ==
    /\ temperatura_ambiente' = temperatura
    /\ coef_conveccao' = IF coef.set THEN coef.val ELSE coef_conveccao
    /\ erro' = "nenhum"
    /\ UNCHANGED <<corpos, delta_t, tempo_atual, matriz_condutancia,
                   condutancia_ambiente, pc, run, cmd, passos>>

\* the test of definir_matriz_condutancia: only shape[0] is compared
matriz_aceita(n, matriz) == n = Linhas(matriz)

DefinirMatrizCondutancia(matriz) ==
    /\ IF matriz_aceita(Len(corpos), matriz)
       THEN /\ matriz_condutancia' = Some(matriz)
            /\ erro' = "nenhum"
       ELSE /\ matriz_condutancia' = matriz_condutancia
            /\ erro' = "ValueError"
    /\ UNCHANGED <<corpos, temperatura_ambiente, coef_conveccao, delta_t,
                   tempo_atual, condutancia_ambiente, pc, run, cmd, passos>>

condutancias_aceitas(n, condutancias) == n = Len(condutancias)

DefinirCondutanciaAmbiente(condutancias) ==
    /\ IF condutancias_aceitas(Len(corpos), condutancias)
       THEN /\ condutancia_ambiente' = Some(condutancias)
            /\ erro' = "nenhum"
       ELSE /\ condutancia_ambiente' = condutancia_ambiente
            /\ erro' = "ValueError"
    /\ UNCHANGED <<corpos, temperatura_ambiente, coef_conveccao, delta_t,
                   tempo_atual, matriz_condutancia, pc, run, cmd, passos>>

\* the step count taken one too many
num_passos_mais_um(tempo_total, dt) == Trunc(NpDiv(tempo_total, dt)) + 1

\* int(tempo_total / self.delta_t), self.delta_t not zero
num_passos_de(tempo_total, dt) == Trunc(NpDiv(tempo_total, dt))

---------------------------------------------------------------------------
(* The coupled step: one iteration of the loop of simular_multiplos_corpos *)

AreaContato == Frac(1, 10)
EspessuraPadrao == Frac(1, 100)

\* the pairs (i, j), i < j, in the order the nested loops visit them
RECURSIVE Pares(_, _, _)
Pares(i, j, n) ==
    IF i > n THEN <<>>
    ELSE IF j > n THEN Pares(i + 1, i + 2, n)
    ELSE << <<i, j>> >> \o Pares(i, j + 1, n)

\* delta_Q after the convection loop
delta_Q_conveccao(T, areas, coefs) ==
    [i \in 1..Len(T) |->
        Neg(calcular_delta_Q(
                taxa_conveccao(coefs[i], areas[i], T[i], temperatura_ambiente),
                delta_t))]

\* the heat moved from i to j by one pair of the conduction loop
delta_Q_cond(G, T, i, j) ==
    calcular_delta_Q(
        taxa_conducao(G[i][j], AreaContato, EspessuraPadrao, T[i], T[j]),
        delta_t)

\* the pair applied to body i only, body j's share forgotten
aplicar_par_sem_reciproco(dQ, G, T, i, j) ==
    IF Gt0(G[i][j])
    THEN [dQ EXCEPT ![i] = Sub(@, delta_Q_cond(G, T, i, j))]
    ELSE dQ

\* one pair of the conduction loop applied to delta_Q
aplicar_par(dQ, G, T, i, j) ==
    IF Gt0(G[i][j])
    THEN [dQ EXCEPT ![i] = Sub(@, delta_Q_cond(G, T, i, j)),
                    ![j] = Add(dQ[j], delta_Q_cond(G, T, i, j))]
    ELSE dQ

\* the conduction loop over the remaining pairs ps
RECURSIVE conducao(_, _, _, _)
conducao(dQ, G, T, ps) ==
    IF ps = <<>> THEN dQ
    ELSE conducao(aplicar_par(dQ, G, T, Head(ps)[1], Head(ps)[2]), G, T, Tail(ps))

\* coefs_conv[i] past the end of a shorter vector
IndexErrorConveccao(n, coefs) == n > Len(coefs)

\* matriz_condutancia[i, j] outside the matrix, for some pair the loops reach
IndexErrorConducao(n, m) ==
    /\ m.set
    /\ \E i, j \in 1..n : i < j /\ (i > Linhas(m.val) \/ j > Colunas(m.val))

\* delta_Q of the step from the temperatures T at its start
delta_Q_passo(T, areas, coefs) ==
    IF matriz_condutancia.set
    THEN conducao(delta_Q_conveccao(T, areas, coefs), matriz_condutancia.val, T,
                  Pares(1, 2, Len(T)))
    ELSE delta_Q_conveccao(T, areas, coefs)

\* temperaturas += delta_Q / capacidades
novas_temperaturas(T, dQ, capacidades) ==
    [i \in 1..Len(T) |-> Add(T[i], NpDiv(dQ[i], capacidades[i]))]

---------------------------------------------------------------------------
(* simular_multiplos_corpos *)

\* the arrays taken from the bodies' initial temperatures instead of their
\* current ones
locais_multiplos_do_inicio(tempo_total, cs, cond, cli) ==
    [ tempo_total |-> tempo_total,
      num_passos |-> num_passos_de(tempo_total, delta_t),
      k |-> 0,
      modo |-> "multiplos",
      temperaturas |-> [i \in 1..Len(cs) |-> cs[i].historico_temperatura[1]],
      capacidades |-> [i \in 1..Len(cs) |-> capacidade_termica(cs[i])],
      areas |-> [i \in 1..Len(cs) |-> cs[i].area_superficie],
      coefs_conv |-> IF cond.set THEN cond.val
                     ELSE [i \in 1..Len(cs) |-> coef_conveccao],
      inicio |-> tempo_atual,
      cli |-> cli ]

\* lines 75-87: the step count and the arrays the loop works on
locais_multiplos(tempo_total, cs, cond, cli) ==
    [ tempo_total |-> tempo_total,
      num_passos |-> num_passos_de(tempo_total, delta_t),
      k |-> 0,
      modo |-> "multiplos",
      temperaturas |-> [i \in 1..Len(cs) |-> cs[i].temperatura],
      capacidades |-> [i \in 1..Len(cs) |-> capacidade_termica(cs[i])],
      areas |-> [i \in 1..Len(cs) |-> cs[i].area_superficie],
      coefs_conv |-> IF cond.set THEN cond.val
                     ELSE [i \in 1..Len(cs) |-> coef_conveccao],
      inicio |-> tempo_atual,
      cli |-> cli ]

\* entry of simular_multiplos_corpos on the bodies cs with the ambient
\* vector cond; tempo_total / delta_t
\* raises ZeroDivisionError on Python floats when delta_t is zero
iniciar_multiplos(tempo_total, cs, cond, cli) ==
    IF IsZero(delta_t)
    THEN /\ pc' = (IF cli THEN "fim" ELSE "idle")
         /\ run' = NoRun
         /\ erro' = "ZeroDivisionError"
    ELSE /\ num_passos_de(tempo_total, delta_t) <= MaxPassos - passos
         /\ pc' = "multi"
         /\ run' = locais_multiplos(tempo_total, cs, cond, cli)
         /\ erro' = "nenhum"

SimularMultiplosCorpos(tempo_total) ==
    /\ iniciar_multiplos(tempo_total, corpos, condutancia_ambiente, FALSE)
    /\ UNCHANGED <<engine, cmd, passos>>

\* lines 124-128: the bodies after the step, with temperatures T at time t
corpos_registrados(cs, T, t) ==
    [i \in 1..Len(cs) |->
        registrar_estado([cs[i] EXCEPT !.temperatura = T[i], !.np = TRUE], t)]

\* one iteration of the loop (lines 89-128)
PassoMultiplos ==
    /\ pc = "multi"
    /\ run.k < run.num_passos
    /\ passos' = passos + 1
    /\ IF \/ IndexErrorConveccao(Len(run.temperaturas), run.coefs_conv)
          \/ IndexErrorConducao(Len(run.temperaturas), matriz_condutancia)
       THEN /\ erro' = "IndexError"
            /\ pc' = (IF run.cli THEN "fim" ELSE "idle")
            /\ run' = NoRun
            /\ UNCHANGED <<engine, cmd>>
       ELSE LET dQ == delta_Q_passo(run.temperaturas, run.areas, run.coefs_conv)
                T2 == novas_temperaturas(run.temperaturas, dQ, run.capacidades)
                t2 == Add(tempo_atual, delta_t)
            IN  /\ corpos' = corpos_registrados(corpos, T2, t2)
                /\ tempo_atual' = t2
                /\ run' = [run EXCEPT !.k = @ + 1, !.temperaturas = T2]
                /\ UNCHANGED <<temperatura_ambiente, coef_conveccao, delta_t,
                               matriz_condutancia, condutancia_ambiente, pc, erro,
                               cmd>>

\* the loop is over: return self.obter_resultados()
Retornar ==
    /\ pc \in {"multi", "legado"}
    /\ run.k >= run.num_passos
    /\ pc' = (IF run.cli THEN "fim" ELSE "idle")
    /\ run' = NoRun
    /\ UNCHANGED <<engine, erro, cmd, passos>>

---------------------------------------------------------------------------
(* executar_passo and simular *)

simular_conveccao_ambiente(corpo) ==
    Neg(calcular_delta_Q(
            taxa_conveccao(coef_conveccao, corpo.area_superficie,
                           corpo.temperatura, temperatura_ambiente),
            delta_t))

\* lines 148-149 for one body; delta_Q is a numpy float exactly when the
\* body's temperature is one
passo_ambiente_corpo(corpo) ==
    atualizar_temperatura(corpo, simular_conveccao_ambiente(corpo), corpo.np)

\* index of the first body whose update raises, 0 if none does
primeira_falha(cs) ==
    LET F == {i \in 1..Len(cs) : atualizar_temperatura_raises(cs[i], cs[i].np)}
    IN  IF F = {} THEN 0 ELSE CHOOSE i \in F : \A j \in F : i <= j

\* executar_passo(modo): the bodies, the elapsed time and the exception it
\* leaves.  modo='conducao' calls self.simular_conducao_entre_corpos, which
\* SimuladorTermico does not define: AttributeError before any update
executar_passo(modo) ==
    IF modo = "conducao"
    THEN [corpos |-> corpos, tempo_atual |-> tempo_atual, erro |-> "AttributeError"]
    ELSE LET f == primeira_falha(corpos)
             t2 == Add(tempo_atual, delta_t)
         IN  IF f # 0
             THEN [corpos |-> [i \in 1..Len(corpos) |->
                                 IF i < f THEN passo_ambiente_corpo(corpos[i])
                                 ELSE corpos[i]],
                   tempo_atual |-> tempo_atual,
                   erro |-> "ZeroDivisionError"]
             ELSE [corpos |-> [i \in 1..Len(corpos) |->
                                 registrar_estado(passo_ambiente_corpo(corpos[i]), t2)],
                   tempo_atual |-> t2,
                   erro |-> "nenhum"]

ExecutarPasso(modo) ==
    /\ LET r == executar_passo(modo)
       IN  /\ corpos' = r.corpos
           /\ tempo_atual' = r.tempo_atual
           /\ erro' = r.erro
    /\ passos' = passos + 1
    /\ UNCHANGED <<temperatura_ambiente, coef_conveccao, delta_t,
                   matriz_condutancia, condutancia_ambiente, pc, run, cmd>>

\* the branch simular takes (line 170)
usa_multiplos == Len(corpos) > 1 /\ matriz_condutancia.set

Simular(tempo_total, modo) ==
    /\ IF usa_multiplos
       THEN iniciar_multiplos(tempo_total, corpos, condutancia_ambiente, FALSE)
       ELSE IF IsZero(delta_t)
       THEN /\ pc' = "idle"
            /\ run' = NoRun
            /\ erro' = "ZeroDivisionError"
       ELSE /\ num_passos_de(tempo_total, delta_t) <= MaxPassos - passos
            /\ pc' = "legado"
            /\ run' = [NoRun EXCEPT !.tempo_total = tempo_total,
                                    !.num_passos = num_passos_de(tempo_total, delta_t),
                                    !.modo = modo,
                                    !.inicio = tempo_atual]
            /\ erro' = "nenhum"
    /\ UNCHANGED <<engine, cmd, passos>>

\* one iteration of the loop of simular (lines 174-175)
PassoLegado ==
    /\ pc = "legado"
    /\ run.k < run.num_passos
    /\ passos' = passos + 1
    /\ LET r == executar_passo(run.modo)
       IN  /\ corpos' = r.corpos
           /\ tempo_atual' = r.tempo_atual
           /\ erro' = r.erro
           /\ IF r.erro = "nenhum"
              THEN /\ run' = [run EXCEPT !.k = @ + 1]
                   /\ pc' = pc
              ELSE /\ run' = NoRun
                   /\ pc' = "idle"
    /\ UNCHANGED <<temperatura_ambiente, coef_conveccao, delta_t,
                   matriz_condutancia, condutancia_ambiente, cmd>>

---------------------------------------------------------------------------
(* cli.py: the multicorpo command *)

VetoresTInit == { SeqNum(<<100>>), SeqNum(<<100, 25>>), SeqNum(<<100, 25, 100>>) }
VetoresM == { SeqNum(<<1>>), SeqNum(<<1, 2>>), SeqNum(<<1, 2, 0>>) }
VetoresC == { SeqNum(<<1000>>), SeqNum(<<1000, 10>>), SeqNum(<<1000, 10, 10>>) }
OpcoesG == {None} \cup {Some(g) : g \in Matrizes}
OpcoesGEnv == {None} \cup {Some(v) : v \in Condutancias}
OpcoesTAmb == { Num(25), Num(20) }

\* the engine has just been constructed and nothing was done with it
Novo ==
    /\ pc = "idle" /\ corpos = <<>> /\ passos = 0 /\ erro = "nenhum" /\ ~cmd.set
    /\ temperatura_ambiente = Num(25) /\ coef_conveccao = Num(10)
    /\ ~matriz_condutancia.set /\ ~condutancia_ambiente.set

\* the validation rejecting only vectors that are too short
multicorpo_invalido_so_curtos(t_init, m, c, g, g_env) ==
    \/ Len(m) < Len(t_init) \/ Len(c) < Len(t_init)
    \/ g.set /\ (Linhas(g.val) # Len(t_init) \/ Colunas(g.val) # Len(t_init))
    \/ g_env.set /\ Len(g_env.val) # Len(t_init)

\* lines 71-79: the validation of the command's options
multicorpo_invalido(t_init, m, c, g, g_env) ==
    \/ Len(m) # Len(t_init) \/ Len(c) # Len(t_init)
    \/ g.set /\ (Linhas(g.val) # Len(t_init) \/ Colunas(g.val) # Len(t_init))
    \/ g_env.set /\ Len(g_env.val) # Len(t_init)

\* lines 82-91: the bodies, built from numpy floats
multicorpo_corpos(t_init, m, c) ==
    [i \in 1..Len(t_init) |->
        [CorpoTermico(m[i], c[i], Frac(1, 10), t_init[i]) EXCEPT !.np = TRUE]]

\* the command up to the loop of simular_multiplos_corpos; the process ends
\* on an exception
CliMulticorpo(t_init, m, c, g, g_env, t_amb, t_max) ==
    /\ cmd' = [set |-> TRUE, n_t_init |-> Len(t_init), n_m |-> Len(m), n_c |-> Len(c)]
    /\ IF multicorpo_invalido(t_init, m, c, g, g_env)
       THEN /\ erro' = "BadParameter"
            /\ pc' = "fim"
            /\ UNCHANGED <<engine, run, passos>>
       ELSE /\ corpos' = multicorpo_corpos(t_init, m, c)
            /\ temperatura_ambiente' = t_amb
            /\ matriz_condutancia' = g
            /\ condutancia_ambiente' = g_env
            /\ iniciar_multiplos(t_max, multicorpo_corpos(t_init, m, c), g_env, TRUE)
            /\ UNCHANGED <<coef_conveccao, delta_t, tempo_atual, passos>>

---------------------------------------------------------------------------
(* The engine under every call sequence *)

\* the caller is between calls
Idle == pc = "idle"

Next ==
    \/ Idle /\ Len(corpos) < MaxCorpos /\ UNCHANGED chamada
            /\ \E p \in ParametrosCorpo : AdicionarCorpo(p)
    \/ Idle /\ UNCHANGED chamada
            /\ \E t \in TemperaturasAmbiente, h \in Coeficientes : ConfigurarAmbiente(t, h)
    \/ Idle /\ UNCHANGED chamada /\ \E g \in Matrizes : DefinirMatrizCondutancia(g)
    \/ Idle /\ UNCHANGED chamada /\ \E v \in Condutancias : DefinirCondutanciaAmbiente(v)
    \/ Idle /\ UNCHANGED chamada /\ \E tt \in TemposTotais : SimularMultiplosCorpos(tt)
    \/ Idle /\ UNCHANGED chamada
            /\ \E tt \in TemposTotais, modo \in Modos : Simular(tt, modo)
    \/ Idle /\ passos < MaxPassos /\ UNCHANGED chamada
            /\ \E modo \in Modos : ExecutarPasso(modo)
    \/ PassoMultiplos /\ UNCHANGED chamada
    \/ PassoLegado /\ UNCHANGED chamada
    \/ Retornar /\ UNCHANGED chamada
    \/ Novo /\ UNCHANGED chamada
            /\ \E t_init \in VetoresTInit, m \in VetoresM, c \in VetoresC,
                  g \in OpcoesG, g_env \in OpcoesGEnv, t_amb \in OpcoesTAmb,
                  t_max \in TemposTotais :
                    CliMulticorpo(t_init, m, c, g, g_env, t_amb, t_max)

Spec == Init /\ [][Next]_vars

---------------------------------------------------------------------------
(* The library called directly: taxa_conducao and a body's                  *)
(* atualizar_temperatura, outside any engine step                          *)

Condutividades == { Num(50) }
AreasContato == { Frac(1, 100) }
Espessuras == { Frac(-1, 1000), Zero, Frac(1, 1000) }
TemperaturasSuperficie == { Num(100), Num(25) }
CaloresAplicados == { Zero, Num(80), Num(-80) }

\* k * area * (T1 - T2) / espessura raises ZeroDivisionError when espessura is
\* zero and every operand is a Python float; with a numpy operand it yields
\* inf or nan
taxa_conducao_raises(espessura, np) == ~np /\ IsZero(espessura)

\* taxa_conducao(k, area, espessura, T1, T2), np saying whether the
\* temperatures are numpy floats
ChamarTaxaConducao(k, area, espessura, T1, T2, np) ==
    /\ chamada' =
          IF taxa_conducao_raises(espessura, np)
          THEN [op |-> "taxa_conducao", espessura |-> espessura,
                erro |-> "ZeroDivisionError", retorno |-> None]
          ELSE [op |-> "taxa_conducao", espessura |-> espessura,
                erro |-> "nenhum",
                retorno |-> Some(taxa_conducao(k, area, espessura, T1, T2))]
    /\ UNCHANGED <<engine, pc, run, erro, cmd, passos>>

\* corpos[i].atualizar_temperatura(delta_Q, delta_t), q_np saying whether
\* delta_Q is a numpy float
AtualizarTemperatura(i, delta_Q, q_np) ==
    /\ IF atualizar_temperatura_raises(corpos[i], q_np)
       THEN /\ corpos' = corpos
            /\ erro' = "ZeroDivisionError"
       ELSE /\ corpos' = [corpos EXCEPT ![i] = atualizar_temperatura(@, delta_Q, q_np)]
            /\ erro' = "nenhum"
    /\ passos' = passos + 1
    /\ UNCHANGED <<temperatura_ambiente, coef_conveccao, delta_t, tempo_atual,
                   matriz_condutancia, condutancia_ambiente, pc, run, cmd, chamada>>

NextChamadas ==
    \/ Len(corpos) < MaxCorpos /\ UNCHANGED chamada
            /\ \E p \in ParametrosCorpo : AdicionarCorpo(p)
    \/ passos < MaxPassos
            /\ \E i \in 1..Len(corpos), q \in CaloresAplicados, q_np \in BOOLEAN :
                  AtualizarTemperatura(i, q, q_np)
    \/ \E k \in Condutividades, area \in AreasContato, espessura \in Espessuras,
          T1 \in TemperaturasSuperficie, T2 \in TemperaturasSuperficie,
          np \in BOOLEAN :
            ChamarTaxaConducao(k, area, espessura, T1, T2, np)

SpecChamadas == Init /\ [][NextChamadas]_vars

---------------------------------------------------------------------------
(* Vocabulary of the properties *)

RECURSIVE Soma(_)
Soma(seq) == IF seq = <<>> THEN Zero ELSE Add(Head(seq), Soma(Tail(seq)))

\* sum over the bodies of mass * specific heat * temperature
Energia(cs) ==
    Soma([i \in 1..Len(cs) |->
            Mul(Mul(cs[i].massa, cs[i].calor_especifico), cs[i].temperatura)])

Zeros(n) == [i \in 1..n |-> Zero]

LessEq(a, b) == a.n * b.d <= b.n * a.d

\* floor(T / dt) for T > 0 and dt > 0: the n with n*dt <= T < (n+1)*dt
Floor(T, dt) ==
    CHOOSE n \in 0..(T.n * dt.d) :
        LessEq(Mul(Num(n), dt), T) /\ Less(T, Mul(Num(n + 1), dt))

\* a simular / simular_multiplos_corpos call is in its loop or about to return
EmSimulacao == pc \in {"multi", "legado"}
LacoTerminado == EmSimulacao /\ run.k >= run.num_passos

\* this transition is a completed step of the coupled mode
PassoAcopladoCompleto == pc = "multi" /\ PassoMultiplos /\ pc' = "multi"

\* this transition is an ambient-mode step (executar_passo with modo='ambiente')
PassoAmbiente ==
    \/ pc = "idle" /\ passos < MaxPassos /\ ExecutarPasso("ambiente")
    \/ pc = "legado" /\ run.modo = "ambiente" /\ PassoLegado

---------------------------------------------------------------------------
(* C1..C10 *)

\* C1: in every completed step of the coupled mode with a conductance matrix
\* set, the conduction contributions added to delta_Q sum to zero and the
\* change of the total energy equals the sum of the ambient convective
\* delta_Q of the step.
C1_ConservacaoAcoplada ==
    [][ (PassoAcopladoCompleto /\ matriz_condutancia.set) =>
          /\ Soma(conducao(Zeros(Len(corpos)), matriz_condutancia.val,
                           run.temperaturas, Pares(1, 2, Len(corpos)))) = Zero
          /\ Sub(Energia(corpos'), Energia(corpos))
               = Soma(delta_Q_conveccao(run.temperaturas, run.areas, run.coefs_conv))
      ]_vars

\* with every capacity positive the coupled step conserves: what C1 states
\* holds of every step whose bodies all have mass * specific heat > 0
ConservacaoCapacidadesPositivas ==
    [][ ( /\ PassoAcopladoCompleto /\ matriz_condutancia.set
          /\ \A i \in 1..Len(corpos) : Gt0(run.capacidades[i]) ) =>
          /\ Soma(conducao(Zeros(Len(corpos)), matriz_condutancia.val,
                           run.temperaturas, Pares(1, 2, Len(corpos)))) = Zero
          /\ Sub(Energia(corpos'), Energia(corpos))
               = Soma(delta_Q_conveccao(run.temperaturas, run.areas, run.coefs_conv))
      ]_vars

\* C2: a step in conduction-pair mode on an engine with two bodies applies
\* heat to the two bodies (the step completes) and the two heat quantities,
\* capacity times temperature change, sum to zero.
C2_ConducaoConserva ==
    [][ (pc = "idle" /\ passos < MaxPassos /\ Len(corpos) = 2
         /\ ExecutarPasso("conducao")) =>
          /\ erro' = "nenhum"
          /\ Sub(Energia(corpos'), Energia(corpos)) = Zero
      ]_vars

\* C3: a run with dt > 0 and total time T > 0 is given floor(T / dt) steps,
\* has executed exactly that many when its loop is over, each advancing the
\* elapsed time by dt; with dt = 10 and T = 25 it ends after 2 steps with the
\* elapsed time advanced by 20.
C3_PassosFloor ==
    (EmSimulacao /\ Gt0(delta_t) /\ Gt0(run.tempo_total)) =>
        /\ run.num_passos = Floor(run.tempo_total, delta_t)
        /\ run.k <= run.num_passos
        /\ (LacoTerminado => run.k = Floor(run.tempo_total, delta_t))
        /\ tempo_atual = Add(run.inicio, Mul(Num(run.k), delta_t))
        /\ (LacoTerminado /\ delta_t = Num(10) /\ run.tempo_total = Num(25) =>
              run.k = 2 /\ tempo_atual = Add(run.inicio, Num(20)))

\* a run with dt = 10 and T = 25 on a fresh engine is over after 2 steps, at 20
C3_Witness ==
    /\ LacoTerminado
    /\ delta_t = Num(10) /\ run.tempo_total = Num(25)
    /\ run.k = 2 /\ tempo_atual = Num(20)

\* C4: a run requested with dt <= 0 or total time <= 0 fails validation: the
\* call raises an error that is not a division by zero and enters no loop.
C4_ValidaTempo ==
    [][ \A tt \in TemposTotais :
          ( /\ pc = "idle"
            /\ ~(Gt0(delta_t) /\ Gt0(tt))
            /\ (SimularMultiplosCorpos(tt) \/ \E modo \in Modos : Simular(tt, modo)) )
          => (pc' = "idle" /\ erro' \notin {"nenhum", "ZeroDivisionError"})
      ]_vars

\* C5: every body that exists has heat capacity mass * specific heat > 0.
C5_CapacidadePositiva ==
    \A i \in 1..Len(corpos) : Gt0(capacidade_termica(corpos[i]))

\* C6: at every engine state a configured conductance matrix is N x N and a
\* configured ambient coefficient vector has length N, N the body count.
C6_DimensoesConcordam ==
    /\ matriz_condutancia.set =>
          /\ Linhas(matriz_condutancia.val) = Len(corpos)
          /\ Colunas(matriz_condutancia.val) = Len(corpos)
    /\ condutancia_ambiente.set => Len(condutancia_ambiente.val) = Len(corpos)

\* C7: definir_matriz_condutancia with a matrix that is not square of side N
\* raises the mismatch error and leaves the configured matrix unchanged.
C7_MatrizQuadrada ==
    [][ \A g \in Matrizes :
          ( /\ pc = "idle"
            /\ ~(Linhas(g) = Len(corpos) /\ Colunas(g) = Len(corpos))
            /\ DefinirMatrizCondutancia(g) )
          => (erro' = "ValueError" /\ matriz_condutancia' = matriz_condutancia)
      ]_vars

MudancaPelaFormula(i) ==
    corpos'[i].temperatura =
        Add(corpos[i].temperatura,
            Neg(NpDiv(Mul(Mul(Mul(coef_conveccao, corpos[i].area_superficie),
                              Sub(corpos[i].temperatura, temperatura_ambiente)),
                          delta_t),
                      Mul(corpos[i].massa, corpos[i].calor_especifico))))

\* C10: a completed ambient-mode step changes each body's temperature by
\* -(h * area * (T - T_ambient) * dt) / (mass * specific heat); a body hotter
\* than ambient cools and a body colder than ambient warms; the body of the
\* example goes from 100 to 99.92.
C10_PassoAmbiente ==
    [][ (PassoAmbiente /\ erro' = "nenhum") =>
          \A i \in 1..Len(corpos) :
            /\ MudancaPelaFormula(i)
            /\ IsFinite(corpos[i].temperatura) =>
                 /\ Less(temperatura_ambiente, corpos[i].temperatura) =>
                      Less(corpos'[i].temperatura, corpos[i].temperatura)
                 /\ Less(corpos[i].temperatura, temperatura_ambiente) =>
                      Less(corpos[i].temperatura, corpos'[i].temperatura)
      ]_vars

\* the formula holds of every completed ambient-mode step, and the direction
\* holds of every one taken with delta_t > 0
FormulaPassoAmbiente ==
    [][ (PassoAmbiente /\ erro' = "nenhum") =>
          \A i \in 1..Len(corpos) :
            /\ MudancaPelaFormula(i)
            /\ (IsFinite(corpos[i].temperatura) /\ Gt0(delta_t)) =>
                 /\ Less(temperatura_ambiente, corpos[i].temperatura) =>
                      Less(corpos'[i].temperatura, corpos[i].temperatura)
                 /\ Less(corpos[i].temperatura, temperatura_ambiente) =>
                      Less(corpos[i].temperatura, corpos'[i].temperatura)
      ]_vars

\* the worked example: mass 1, specific heat 1000, area 0.1 at 100 with the
\* ambient at 20, h = 10 and dt = 1 gives rate 80, delta_Q -80 and 99.92
ExemploPassoAmbiente ==
    \A i \in 1..Len(corpos) :
        ( /\ corpos[i].massa = Num(1) /\ corpos[i].calor_especifico = Num(1000)
          /\ corpos[i].area_superficie = Frac(1, 10)
          /\ corpos[i].temperatura = Num(100)
          /\ temperatura_ambiente = Num(20) /\ coef_conveccao = Num(10)
          /\ delta_t = Num(1) ) =>
            /\ taxa_conveccao(coef_conveccao, corpos[i].area_superficie,
                              corpos[i].temperatura, temperatura_ambiente) = Num(80)
            /\ simular_conveccao_ambiente(corpos[i]) = Num(-80)
            /\ passo_ambiente_corpo(corpos[i]).temperatura = Frac(9992, 100)

---------------------------------------------------------------------------
(* C11..C19 *)

\* C11: taxa_conducao called with a thickness that is zero or negative does
\* not return a rate: the call ends with an error.
C11_EspessuraValidada ==
    (chamada.op = "taxa_conducao" /\ LessEq(chamada.espessura, Zero)) =>
        (chamada.erro # "nenhum" /\ ~chamada.retorno.set)

\* C12: atualizar_temperatura with delta_Q = 0 leaves the body's temperature
\* and its temperature and time histories as they were before the call.
C12_CalorZeroIdempotente ==
    [][ \A i \in 1..Len(corpos), q_np \in BOOLEAN :
          AtualizarTemperatura(i, Zero, q_np) =>
            /\ corpos'[i].temperatura = corpos[i].temperatura
            /\ corpos'[i].historico_temperatura = corpos[i].historico_temperatura
            /\ corpos'[i].historico_tempo = corpos[i].historico_tempo
      ]_vars

\* zero heat leaves temperature and history unchanged on every body whose
\* capacity is not zero
CalorZeroCapacidadeNaoNula ==
    [][ \A i \in 1..Len(corpos), q_np \in BOOLEAN :
          (AtualizarTemperatura(i, Zero, q_np)
             /\ ~IsZero(capacidade_termica(corpos[i]))) =>
            /\ corpos'[i].temperatura = corpos[i].temperatura
            /\ corpos'[i].historico_temperatura = corpos[i].historico_temperatura
            /\ corpos'[i].historico_tempo = corpos[i].historico_tempo
      ]_vars

\* the bijections of 1..n
Perms(n) == {p \in [1..n -> 1..n] : \A i, j \in 1..n : i # j => p[i] # p[j]}

\* G is square of side n and equal to its transpose
Simetrica(G, n) ==
    /\ Len(G) = n
    /\ \A i \in 1..n : Len(G[i]) = n
    /\ \A i, j \in 1..n : G[i][j] = G[j][i]

\* the heat body i receives in a step, written from the temperatures T alone:
\* its ambient convection and, for each other body j joined to it by a
\* positive conductance, the conduction from j
CalorDoInstantaneo(T, areas, coefs, G, i) ==
    LET conv == Neg(Mul(Mul(Mul(coefs[i], areas[i]),
                            Sub(T[i], temperatura_ambiente)), delta_t))
        g(j) == IF i < j THEN G.val[i][j] ELSE G.val[j][i]
        de(j) == IF j = i \/ ~G.set THEN Zero
                 ELSE IF Gt0(g(j))
                 THEN Mul(NpDiv(Mul(Mul(g(j), Frac(1, 10)), Sub(T[j], T[i])),
                                Frac(1, 100)), delta_t)
                 ELSE Zero
    IN  Add(conv, Soma([j \in 1..Len(T) |-> de(j)]))

\* the temperatures the step gives the system relabelled by p: body k of the
\* relabelled system is body p[k]
PassoRotulado(p, T, areas, coefs, capacidades, G) ==
    LET n == Len(T)
        Tp == [k \in 1..n |-> T[p[k]]]
        Ap == [k \in 1..n |-> areas[p[k]]]
        Hp == [k \in 1..n |-> coefs[p[k]]]
        Cp == [k \in 1..n |-> capacidades[p[k]]]
        Gp == [k \in 1..n |-> [l \in 1..n |-> G[p[k]][p[l]]]]
    IN  novas_temperaturas(Tp,
            conducao(delta_Q_conveccao(Tp, Ap, Hp), Gp, Tp, Pares(1, 2, n)), Cp)

\* C13: a completed coupled step gives every body the temperature computed
\* from the temperatures all bodies held when the step began; and with a
\* symmetric conductance matrix the step of the relabelled system gives each
\* body the same temperature, for every relabelling.
C13_InstantaneoERotulos ==
    [][ PassoAcopladoCompleto =>
          LET n == Len(corpos)
              T == [i \in 1..n |-> corpos[i].temperatura]
          IN  /\ \A i \in 1..n :
                    corpos'[i].temperatura =
                        Add(T[i], NpDiv(CalorDoInstantaneo(T, run.areas, run.coefs_conv,
                                                           matriz_condutancia, i),
                                        run.capacidades[i]))
              /\ (matriz_condutancia.set /\ Simetrica(matriz_condutancia.val, n)) =>
                    \A p \in Perms(n) : \A k \in 1..n :
                        PassoRotulado(p, T, run.areas, run.coefs_conv,
                                      run.capacidades, matriz_condutancia.val)[k]
                          = corpos'[p[k]].temperatura
      ]_vars

\* a coupled step has completed on bodies 1 and 2 joined by a positive
\* conductance in a symmetric matrix, leaving them at different temperatures
C13_Witness ==
    /\ pc = "multi" /\ run.k >= 1 /\ Len(corpos) >= 2
    /\ matriz_condutancia.set
    /\ Simetrica(matriz_condutancia.val, Len(corpos))
    /\ Gt0(matriz_condutancia.val[1][2])
    /\ IsFinite(corpos[1].temperatura) /\ IsFinite(corpos[2].temperatura)
    /\ corpos[1].temperatura # corpos[2].temperatura
    /\ corpos[1].temperatura # corpos[1].historico_temperatura[1]

\* this transition is a completed step, in whichever mode
PassoCompleto ==
    \/ PassoAcopladoCompleto
    \/ /\ \/ pc = "idle" /\ passos < MaxPassos /\ \E modo \in Modos : ExecutarPasso(modo)
          \/ PassoLegado
       /\ erro' = "nenhum"

\* this transition appends to body i's history the new elapsed time and the
\* temperature the body has after it
UmRegistro(i) ==
    /\ corpos'[i].historico_tempo = Append(corpos[i].historico_tempo, tempo_atual')
    /\ corpos'[i].historico_temperatura =
          Append(corpos[i].historico_temperatura, corpos'[i].temperatura)

\* s is the beginning of t
Prefixo(s, t) == Len(s) <= Len(t) /\ \A j \in 1..Len(s) : t[j] = s[j]

\* body c has been in the engine since before its first step: at elapsed
\* time t it has one history entry per completed step beside the initial one
DesdeOInicio(c, t) == Mul(Num(Len(c.historico_tempo) - 1), delta_t) = t

\* the recorded times of c are 0, dt, 2dt, ...
TemposMultiplosDeDt(c) ==
    \A j \in 1..Len(c.historico_tempo) :
        c.historico_tempo[j] = Mul(Num(j - 1), delta_t)

TemposCrescentes(c) ==
    \A j \in 1..(Len(c.historico_tempo) - 1) :
        Less(c.historico_tempo[j], c.historico_tempo[j + 1])

\* what every transition does to the histories: a completed step advances the
\* time by dt once and records one entry per body; no transition removes a
\* body or removes or rewrites an entry
RegistroPorPasso ==
    /\ PassoCompleto =>
          /\ tempo_atual' = Add(tempo_atual, delta_t)
          /\ Len(corpos') = Len(corpos)
          /\ \A i \in 1..Len(corpos) : UmRegistro(i)
    /\ Len(corpos) <= Len(corpos')
    /\ \A i \in 1..Len(corpos) :
          /\ Prefixo(corpos[i].historico_tempo, corpos'[i].historico_tempo)
          /\ Prefixo(corpos[i].historico_temperatura, corpos'[i].historico_temperatura)
          /\ Len(corpos'[i].historico_tempo) = Len(corpos'[i].historico_temperatura)

\* C14: every completed step advances the elapsed time by dt once and appends
\* one (time, temperature after the step) entry to every body's history; a
\* body present from the start has the times 0, dt, ..., k*dt, strictly
\* increasing; no entry is ever removed or rewritten.
C14_HistoricoPorPasso ==
    [][ /\ RegistroPorPasso
        /\ \A i \in 1..Len(corpos') :
              DesdeOInicio(corpos'[i], tempo_atual') =>
                  (TemposMultiplosDeDt(corpos'[i]) /\ TemposCrescentes(corpos'[i]))
      ]_vars

\* all of it holds, the times strictly increasing whenever delta_t > 0
HistoricoPorPassoDtPositivo ==
    [][ /\ RegistroPorPasso
        /\ \A i \in 1..Len(corpos') :
              DesdeOInicio(corpos'[i], tempo_atual') =>
                  /\ TemposMultiplosDeDt(corpos'[i])
                  /\ Gt0(delta_t) => TemposCrescentes(corpos'[i])
      ]_vars

\* a per-body ambient coefficient vector is configured, one entry per body
VetorConfigurado ==
    condutancia_ambiente.set /\ Len(condutancia_ambiente.val) = Len(corpos)

\* this coupled step moves every body by the heat computed with the body's own
\* entry of the configured vector
AcopladoUsaVetor ==
    LET T == [i \in 1..Len(corpos) |-> corpos[i].temperatura]
        areas == [i \in 1..Len(corpos) |-> corpos[i].area_superficie]
    IN  \A i \in 1..Len(corpos) :
            corpos'[i].temperatura =
                Add(T[i], NpDiv(CalorDoInstantaneo(T, areas, condutancia_ambiente.val,
                                                   matriz_condutancia, i),
                                capacidade_termica(corpos[i])))

\* this ambient-mode step moves every body by the convection computed with the
\* body's own entry of the configured vector
AmbienteUsaVetor ==
    \A i \in 1..Len(corpos) :
        corpos'[i].temperatura =
            Add(corpos[i].temperatura,
                NpDiv(Neg(Mul(Mul(Mul(condutancia_ambiente.val[i],
                                      corpos[i].area_superficie),
                                  Sub(corpos[i].temperatura, temperatura_ambiente)),
                              delta_t)),
                      capacidade_termica(corpos[i])))

\* C15: with a per-body ambient coefficient vector configured, every completed
\* step, coupled or ambient-mode, computes body i's ambient convection from
\* entry i of the vector.
C15_VetorPorCorpo ==
    [][ VetorConfigurado =>
          /\ PassoAcopladoCompleto => AcopladoUsaVetor
          /\ (PassoAmbiente /\ erro' = "nenhum") => AmbienteUsaVetor
      ]_vars

\* the coupled mode does use the vector
VetorPorCorpoAcoplado ==
    [][ (VetorConfigurado /\ PassoAcopladoCompleto) => AcopladoUsaVetor ]_vars

\* this transition is a simular call that enters its loop
SimularEntra ==
    /\ pc = "idle" /\ pc' # "idle"
    /\ \E tt \in TemposTotais, modo \in Modos : Simular(tt, modo)

\* C16: a simular call on an engine with a conductance matrix configured and at
\* least one body runs the coupled algorithm, whatever the modo argument; the
\* ambient-only and conduction-pair algorithms run only with no matrix.
C16_MatrizImplicaAcoplado ==
    [][ SimularEntra =>
          /\ (matriz_condutancia.set /\ Len(corpos) >= 1) => pc' = "multi"
          /\ pc' = "legado" => ~matriz_condutancia.set
      ]_vars

\* with two or more bodies a configured matrix does select the coupled
\* algorithm
MatrizImplicaAcopladoDoisCorpos ==
    [][ (SimularEntra /\ matriz_condutancia.set /\ Len(corpos) >= 2) =>
            pc' = "multi"
      ]_vars

\* this transition is a step, in whichever mode, that ends with an error
PassoFalho ==
    /\ \/ PassoMultiplos
       \/ PassoLegado
       \/ pc = "idle" /\ passos < MaxPassos /\ \E modo \in Modos : ExecutarPasso(modo)
    /\ erro' # "nenhum"

\* C17: a step that fails leaves every body's temperature and history and the
\* elapsed time as they were before it.
C17_PassoAtomico ==
    [][ PassoFalho => (corpos' = corpos /\ tempo_atual' = tempo_atual) ]_vars

\* a failing coupled step and a failing conduction-mode step change nothing
PassoAtomicoAcopladoEConducao ==
    [][ ( PassoFalho /\ ( \/ pc = "multi"
                          \/ pc = "legado" /\ run.modo = "conducao"
                          \/ pc = "idle" /\ ExecutarPasso("conducao") ) ) =>
            (corpos' = corpos /\ tempo_atual' = tempo_atual)
      ]_vars

\* this transition is a simular or simular_multiplos_corpos call on the engine
\* entering its loop (the multicorpo command also builds the engine)
RunComeca == pc = "idle" /\ pc' \in {"multi", "legado"} /\ cmd' = cmd

\* this transition leaves the loop normally
RunRetorna == pc \in {"multi", "legado"} /\ Retornar

\* the coupled step as a function of the engine's state alone: the bodies'
\* current temperatures, areas and capacities and the configured coefficients
PassoAcopladoDoEstado ==
    LET n == Len(corpos)
        T == [i \in 1..n |-> corpos[i].temperatura]
        areas == [i \in 1..n |-> corpos[i].area_superficie]
        caps == [i \in 1..n |-> capacidade_termica(corpos[i])]
        coefs == IF condutancia_ambiente.set THEN condutancia_ambiente.val
                 ELSE [i \in 1..n |-> coef_conveccao]
    IN  novas_temperaturas(T, delta_Q_passo(T, areas, coefs), caps)

\* C18: runs compose.  A run starts from the engine's state without changing
\* it, returns without changing it, and each of its steps is the same function
\* of the engine's current state (temperatures, histories, elapsed time and
\* configuration) whichever run it belongs to and wherever in the run it is;
\* so n steps and then m steps leave what n + m steps leave.
C18_RunsCompoem ==
    [][ /\ (RunComeca \/ RunRetorna) => UNCHANGED engine
        /\ PassoAcopladoCompleto =>
              /\ tempo_atual' = Add(tempo_atual, delta_t)
              /\ \A i \in 1..Len(corpos) :
                    /\ corpos'[i].temperatura = PassoAcopladoDoEstado[i]
                    /\ UmRegistro(i)
        /\ (pc = "legado" /\ PassoLegado) =>
              /\ corpos' = executar_passo(run.modo).corpos
              /\ tempo_atual' = executar_passo(run.modo).tempo_atual
      ]_vars

\* a second coupled run, begun at elapsed time dt after an earlier step, has
\* completed a step: both bodies have three history entries, the last at 2dt
C18_Witness ==
    /\ pc = "multi" /\ ~run.cli
    /\ Gt0(delta_t) /\ run.inicio = delta_t /\ run.k = 1
    /\ Len(corpos) = 2 /\ matriz_condutancia.set
    /\ \A i \in 1..2 :
          /\ Len(corpos[i].historico_tempo) = 3
          /\ corpos[i].historico_tempo[3] = Mul(Num(2), delta_t)
          /\ IsFinite(corpos[i].temperatura)
    /\ corpos[1].historico_temperatura[2] # corpos[1].historico_temperatura[1]

\* C19: at every engine state all bodies have time histories of the same
\* length with the same times, and temperature histories of that length, so
\* that every row of the export indexed by the first body's times exists.
C19_HistoricosAlinhados ==
    \A i, j \in 1..Len(corpos) :
        /\ corpos[i].historico_tempo = corpos[j].historico_tempo
        /\ Len(corpos[i].historico_temperatura) = Len(corpos[j].historico_tempo)

\* bodies that were in the engine before its first step do have identical
\* time histories (delta_t not zero, so that they can be told apart)
HistoricosAlinhadosDesdeOInicio ==
    ~IsZero(delta_t) =>
        \A i, j \in 1..Len(corpos) :
            (DesdeOInicio(corpos[i], tempo_atual) /\ DesdeOInicio(corpos[j], tempo_atual)) =>
                /\ corpos[i].historico_tempo = corpos[j].historico_tempo
                /\ Len(corpos[i].historico_temperatura) = Len(corpos[j].historico_tempo)

=============================================================================
